---- MODULE Spec2Model ----
(***************************************************************************)
(* Model of cmd/airflow-dag-check/main.go: executeCheck resolves the set   *)
(* of DAGs to evaluate, checkDags classifies every DAG with up to two HTTP *)
(* reads, and executeCheck counts the severities, prints the status lines  *)
(* and returns the overall check state.  The Airflow REST API is the       *)
(* environment: every HTTP read gets a nondeterministic response.          *)
(***************************************************************************)
EXTENDS Integers, Sequences, FiniteSets

VARIABLES pc, pluginDags, explicit, dags, i, dagList, server, health, calls, out, ret

vars == <<pc, pluginDags, explicit, dags, i, dagList, server, health, calls, out, ret>>

(* ---------------------------------------------------------------- bounds *)

\* Longest explicit DAG list, longest listing, largest total_entries.
MaxDags == 2

\* DAG identifiers the operator or the listing may name.
DagIds == {"a", "b"}

\* Run states the service may report; only "failed" is a domain value.
RunStates == {"failed", "success"}

(* ------------------------------------------------------------- constants *)

CheckStateOK == 0

CheckStateWarning == 1

CheckStateCritical == 2

CheckStateUnknown == 3

\* The dagRuns query asks for limit=1.
RunLimit == 1

(* ------------------------------------------------------------ data types *)

SeqsUpTo(S, n) == UNION {[1..k -> S] : k \in 0..n}

\* A nil pointer / nil error.
Nil == [kind |-> "nil"]

\* client.Do failed.
TransportFailure == [kind |-> "transport"]

\* The body is not the JSON the decoder expects.
Undecodable == [kind |-> "undecodable"]

Json(body) == [kind |-> "json", body |-> body]

Dag(dagId, isPaused) == [kind |-> "Dag", DagId |-> dagId, IsPaused |-> isPaused]

DagRun(state) == [kind |-> "DagRun", State |-> state]

\* Responses to GET /dags/{dag_id}.
DagResponses(dagId) ==
    {TransportFailure, Undecodable} \cup {Json(Dag(dagId, p)) : p \in BOOLEAN}

\* Responses to GET /dags.
DagListResponses ==
    {TransportFailure, Undecodable} \cup
    {Json([Dags |-> ds, TotalEntries |-> n]) :
        ds \in SeqsUpTo({Dag(d, p) : d \in DagIds, p \in BOOLEAN}, MaxDags),
        n \in (0 - 1)..MaxDags}

\* Responses to GET /dags/{dag_id}/dagRuns?limit=1.
DagRunListResponses ==
    {TransportFailure, Undecodable} \cup
    {Json([DagRuns |-> rs, TotalEntries |-> Len(rs)]) :
        rs \in SeqsUpTo({DagRun(s) : s \in RunStates}, RunLimit)}

\* error values
ClientError == [kind |-> "client.Do error"]

DecodeError(what) == [kind |-> "failed to decode", what |-> what]

Errorf(msg, dagId) == [kind |-> msg, DagId |-> dagId]

ErrorfCause(msg, dagId, cause) == [kind |-> msg, DagId |-> dagId, cause |-> cause]

(* ------------------------------------------------------------ API client *)

getDag(resp) ==
    IF resp.kind = "transport" THEN [dag |-> Nil, err |-> ClientError]
    ELSE IF resp.kind = "undecodable"
         THEN [dag |-> Nil, err |-> DecodeError("dag response")]
    ELSE [dag |-> resp.body, err |-> Nil]

getAllDags(resp) ==
    IF resp.kind = "transport" THEN [dagList |-> Nil, err |-> ClientError]
    ELSE IF resp.kind = "undecodable"
         THEN [dagList |-> Nil, err |-> DecodeError("dag list response")]
    ELSE [dagList |-> resp.body, err |-> Nil]

getLatestDagRun(resp) ==
    IF resp.kind = "transport" THEN [dagRun |-> Nil, err |-> ClientError]
    ELSE IF resp.kind = "undecodable"
         THEN [dagRun |-> Nil, err |-> DecodeError("dag run list response")]
    ELSE IF Len(resp.body.DagRuns) = 0 THEN [dagRun |-> Nil, err |-> Nil]
    ELSE [dagRun |-> resp.body.DagRuns[1], err |-> Nil]

(* -------------------------------------------------------------- resolver *)

\* resolveDags with the error of getAllDags ignored: the check carries on
\* with no DAG at all.
NoAbortResolveDags(configured, listResp) ==
    IF Len(configured) # 0
    THEN [outcome |-> "resolved", explicit |-> TRUE, dags |-> configured,
          dagList |-> Nil, err |-> Nil]
    ELSE LET got == getAllDags(listResp) IN
         IF got.err # Nil
         THEN [outcome |-> "resolved", explicit |-> FALSE, dags |-> <<>>,
               dagList |-> Nil, err |-> Nil]
         ELSE IF got.dagList.TotalEntries < 0
                 \/ Len(got.dagList.Dags) > got.dagList.TotalEntries
         THEN [outcome |-> "panic", explicit |-> FALSE, dags |-> <<>>,
               dagList |-> got.dagList, err |-> Nil]
         ELSE [outcome |-> "resolved", explicit |-> FALSE,
               dags |-> [k \in 1..got.dagList.TotalEntries |->
                            IF k <= Len(got.dagList.Dags)
                            THEN got.dagList.Dags[k].DagId ELSE ""],
               dagList |-> got.dagList, err |-> Nil]

\* The result of lines 110-126 of executeCheck: the explicit list as given,
\* or the identifiers of the listing copied into a slice of total_entries
\* elements.  make() with a negative length and an index past the slice
\* both panic; slots the listing does not fill keep the empty string.
resolveDags(configured, listResp) ==
    IF Len(configured) # 0
    THEN [outcome |-> "resolved", explicit |-> TRUE, dags |-> configured,
          dagList |-> Nil, err |-> Nil]
    ELSE LET got == getAllDags(listResp) IN
         IF got.err # Nil
         THEN [outcome |-> "abort", explicit |-> FALSE, dags |-> <<>>,
               dagList |-> Nil,
               err |-> [kind |-> "could not retrieve DAGs", cause |-> got.err]]
         ELSE IF got.dagList.TotalEntries < 0
                 \/ Len(got.dagList.Dags) > got.dagList.TotalEntries
         THEN [outcome |-> "panic", explicit |-> FALSE, dags |-> <<>>,
               dagList |-> got.dagList, err |-> Nil]
         ELSE [outcome |-> "resolved", explicit |-> FALSE,
               dags |-> [k \in 1..got.dagList.TotalEntries |->
                            IF k <= Len(got.dagList.Dags)
                            THEN got.dagList.Dags[k].DagId ELSE ""],
               dagList |-> got.dagList, err |-> Nil]

\* The HTTP reads resolution issues: the listing, in discovery mode only.
resolveCalls(configured) ==
    IF Len(configured) # 0 THEN <<>> ELSE <<[op |-> "getAllDags", pos |-> 0]>>

(* ------------------------------------------------------------ classifier *)

Health(dagId, status, err) == [DagId |-> dagId, Status |-> status, Error |-> err]

\* checkDag comparing the run state with a value the service never reports.
checkDagWrongState(dagId, expl, dagResp, runResp) ==
    LET d == getDag(dagResp) IN
    IF d.dag = Nil
    THEN Health(dagId, CheckStateCritical,
                ErrorfCause("could not retrieve dag", dagId, d.err))
    ELSE IF expl /\ d.dag.IsPaused
    THEN Health(dagId, CheckStateWarning,
                Errorf("DAG is paused and will not process", dagId))
    ELSE LET r == getLatestDagRun(runResp) IN
         IF r.dagRun # Nil /\ r.dagRun.State = "failure"
         THEN Health(dagId, CheckStateCritical,
                     Errorf("DAG failed its last execution", dagId))
         ELSE Health(dagId, CheckStateOK, r.err)

\* checkDag flagging every paused DAG, whether asked for or discovered.
checkDagPausedAlways(dagId, expl, dagResp, runResp) ==
    LET d == getDag(dagResp) IN
    IF d.dag = Nil
    THEN Health(dagId, CheckStateCritical,
                ErrorfCause("could not retrieve dag", dagId, d.err))
    ELSE IF d.dag.IsPaused
    THEN Health(dagId, CheckStateWarning,
                Errorf("DAG is paused and will not process", dagId))
    ELSE LET r == getLatestDagRun(runResp) IN
         IF r.dagRun # Nil /\ r.dagRun.State = "failed"
         THEN Health(dagId, CheckStateCritical,
                     Errorf("DAG failed its last execution", dagId))
         ELSE Health(dagId, CheckStateOK, r.err)

\* checkDag reporting a DAG it could not retrieve as a warning.
checkDagUnretrievableWarning(dagId, expl, dagResp, runResp) ==
    LET d == getDag(dagResp) IN
    IF d.dag = Nil
    THEN Health(dagId, CheckStateWarning,
                ErrorfCause("could not retrieve dag", dagId, d.err))
    ELSE IF expl /\ d.dag.IsPaused
    THEN Health(dagId, CheckStateWarning,
                Errorf("DAG is paused and will not process", dagId))
    ELSE LET r == getLatestDagRun(runResp) IN
         IF r.dagRun # Nil /\ r.dagRun.State = "failed"
         THEN Health(dagId, CheckStateCritical,
                     Errorf("DAG failed its last execution", dagId))
         ELSE Health(dagId, CheckStateOK, r.err)

\* checkDag escalating a failed run fetch to critical.
checkDagRunErrorCritical(dagId, expl, dagResp, runResp) ==
    LET d == getDag(dagResp) IN
    IF d.dag = Nil
    THEN Health(dagId, CheckStateCritical,
                ErrorfCause("could not retrieve dag", dagId, d.err))
    ELSE IF expl /\ d.dag.IsPaused
    THEN Health(dagId, CheckStateWarning,
                Errorf("DAG is paused and will not process", dagId))
    ELSE LET r == getLatestDagRun(runResp) IN
         IF r.dagRun # Nil /\ r.dagRun.State = "failed"
         THEN Health(dagId, CheckStateCritical,
                     Errorf("DAG failed its last execution", dagId))
         ELSE Health(dagId, IF r.err # Nil THEN CheckStateCritical
                            ELSE CheckStateOK, r.err)

\* The body of the loop of checkDags for one identifier, lines 182-206.
checkDag(dagId, expl, dagResp, runResp) ==
    LET d == getDag(dagResp) IN
    IF d.dag = Nil
    THEN Health(dagId, CheckStateCritical,
                ErrorfCause("could not retrieve dag", dagId, d.err))
    ELSE IF expl /\ d.dag.IsPaused
    THEN Health(dagId, CheckStateWarning,
                Errorf("DAG is paused and will not process", dagId))
    ELSE LET r == getLatestDagRun(runResp) IN
         IF r.dagRun # Nil /\ r.dagRun.State = "failed"
         THEN Health(dagId, CheckStateCritical,
                     Errorf("DAG failed its last execution", dagId))
         ELSE Health(dagId, CheckStateOK, r.err)

\* checkDagsIteration moving on to the next DAG without recording a DAG it
\* could not retrieve.
checkDagsIterationSkip(result, dagId, expl, dagResp, runResp) ==
    IF getDag(dagResp).dag = Nil THEN result
    ELSE Append(result, checkDag(dagId, expl, dagResp, runResp))

\* One iteration of the loop of checkDags: classify, then append the result.
checkDagsIteration(result, dagId, expl, dagResp, runResp) ==
    Append(result, checkDag(dagId, expl, dagResp, runResp))

\* checkDagCalls trying getDag a second time when the first try fails.
checkDagCallsRetry(pos, expl, dagResp) ==
    LET d == getDag(dagResp) IN
    <<[op |-> "getDag", pos |-> pos]>> \o
    ( IF d.dag = Nil THEN <<[op |-> "getDag", pos |-> pos]>>
      ELSE IF ~(expl /\ d.dag.IsPaused)
      THEN <<[op |-> "getLatestDagRun", pos |-> pos]>> ELSE <<>> )

\* The HTTP reads one iteration issues, in order: getDag always, and
\* getLatestDagRun in the else branch of lines 196-206.
checkDagCalls(pos, expl, dagResp) ==
    LET d == getDag(dagResp) IN
    <<[op |-> "getDag", pos |-> pos]>> \o
    ( IF d.dag # Nil /\ ~(expl /\ d.dag.IsPaused)
      THEN <<[op |-> "getLatestDagRun", pos |-> pos]>> ELSE <<>> )

(* ------------------------------------------------- aggregator & reporter *)

countStatus(h, status) == Cardinality({k \in 1..Len(h) : h[k].Status = status})

StatusName(status) ==
    CASE status = CheckStateWarning -> "WARNING"
      [] status = CheckStateCritical -> "CRITICAL"
      [] status = CheckStateUnknown -> "UNKNOWN"
      [] OTHER -> ""

\* What the loop of lines 136-155 prints for one result.
healthLines(h) ==
    ( IF h.Status \in {CheckStateWarning, CheckStateCritical, CheckStateUnknown}
      THEN <<[line |-> "status", DagId |-> h.DagId, text |-> StatusName(h.Status)]>>
      ELSE <<>> ) \o
    ( IF h.Error # Nil
      THEN <<[line |-> "Error occurred while checking DAG", detail |-> h.Error]>>
      ELSE <<>> )

RECURSIVE printHealth(_)
printHealth(h) ==
    IF h = <<>> THEN <<>> ELSE healthLines(Head(h)) \o printHealth(Tail(h))

SuccessLine == [line |-> "All health checks returning OK for loaded DAGs"]

NoDagsLine == [line |-> "No DAGS loaded"]

\* overallStatus without the warning branch.
overallStatusNoWarning(criticals, unknowns, warnings) ==
    IF criticals > 0 \/ unknowns > 0 THEN CheckStateCritical
    ELSE CheckStateOK

\* Lines 157-169: the overall state from the counters.
overallStatus(criticals, unknowns, warnings) ==
    IF criticals > 0 \/ unknowns > 0 THEN CheckStateCritical
    ELSE IF warnings > 0 THEN CheckStateWarning
    ELSE CheckStateOK

\* closingLines with the test of found inverted.
closingLinesSwapped(status, found) ==
    IF status # CheckStateOK THEN <<>>
    ELSE IF found THEN <<NoDagsLine>> ELSE <<SuccessLine>>

\* Lines 157-167: the closing line, reached only past both early returns.
closingLines(status, found) ==
    IF status # CheckStateOK THEN <<>>
    ELSE IF found THEN <<SuccessLine>> ELSE <<NoDagsLine>>

(* --------------------------------------------------------------- actions *)

NoReturn == [kind |-> "running"]

Return(status, err) == [kind |-> "return", status |-> status, err |-> err]

Init ==
    /\ pc = "executeCheck"
    /\ pluginDags \in SeqsUpTo(DagIds, MaxDags)
    /\ explicit = TRUE
    /\ dags = pluginDags
    /\ i = 1
    /\ dagList = Nil
    /\ server = <<>>
    /\ health = <<>>
    /\ calls = <<>>
    /\ out = <<>>
    /\ ret = NoReturn

\* executeCheck, lines 105-126: resolve the working set.
Resolve ==
    /\ pc = "executeCheck"
    /\ \E listResp \in DagListResponses :
         LET r == resolveDags(pluginDags, listResp) IN
         /\ explicit' = r.explicit
         /\ dags' = r.dags
         /\ dagList' = IF Len(pluginDags) = 0 THEN listResp ELSE Nil
         /\ calls' = calls \o resolveCalls(pluginDags)
         /\ pc' = CASE r.outcome = "resolved" -> "checkDags"
                    [] r.outcome = "abort" -> "done"
                    [] r.outcome = "panic" -> "panic"
         /\ ret' = IF r.outcome = "abort"
                   THEN Return(CheckStateCritical, r.err) ELSE ret
    /\ UNCHANGED <<pluginDags, i, server, health, out>>

\* checkDags, lines 181-209: one iteration of the loop over the working set.
CheckDag ==
    /\ pc = "checkDags"
    /\ i <= Len(dags)
    /\ \E dagResp \in DagResponses(dags[i]), runResp \in DagRunListResponses :
         /\ server' = Append(server, [dag |-> dagResp, run |-> runResp])
         /\ health' = checkDagsIteration(health, dags[i], explicit, dagResp, runResp)
         /\ calls' = calls \o checkDagCalls(i, explicit, dagResp)
    /\ i' = i + 1
    /\ UNCHANGED <<pc, pluginDags, explicit, dags, dagList, out, ret>>

\* executeCheck, lines 128-170: count, print and return the overall state.
Aggregate ==
    /\ pc = "checkDags"
    /\ i > Len(dags)
    /\ LET status == overallStatus(countStatus(health, CheckStateCritical),
                                   countStatus(health, CheckStateUnknown),
                                   countStatus(health, CheckStateWarning))
       IN /\ out' = printHealth(health) \o closingLines(status, Len(health) > 0)
          /\ ret' = Return(status, Nil)
    /\ pc' = "done"
    /\ UNCHANGED <<pluginDags, explicit, dags, i, dagList, server, health, calls>>

Next == Resolve \/ CheckDag \/ Aggregate

Spec == Init /\ [][Next]_vars

(* ------------------------------------------------------------ properties *)

Evaluated == 1..Len(health)

\* The check ran to its end through classification (no fatal error).
Classified == pc = "done" /\ ret.err = Nil

DescriptorOk(k) == getDag(server[k].dag).dag # Nil

Paused(k) == getDag(server[k].dag).dag.IsPaused

\* The run record the service holds for position k, fetched or not.
LatestRun(k) == getLatestDagRun(server[k].run)

LatestRunFailed(k) == LatestRun(k).dagRun # Nil /\ LatestRun(k).dagRun.State = "failed"

Count(seq, x) == Cardinality({n \in 1..Len(seq) : seq[n] = x})

CallsAt(op, pos) == {n \in 1..Len(calls) : calls[n] = [op |-> op, pos |-> pos]}

\* C1 as stated: a DAG whose descriptor is fetched and whose latest run has
\* state "failed" is CRITICAL for every pause state and explicit flag.
C1_FailedAlwaysCritical ==
    \A k \in Evaluated :
        DescriptorOk(k) /\ LatestRunFailed(k)
            => health[k].Status = CheckStateCritical

\* C1 amended: such a DAG is CRITICAL unless it is paused and was asked for
\* explicitly; then it is WARNING and its run is never looked at.
C1_FailedCriticalUnlessExplicitPaused ==
    \A k \in Evaluated :
        DescriptorOk(k) /\ LatestRunFailed(k)
            => health[k].Status = IF explicit /\ Paused(k)
                                  THEN CheckStateWarning ELSE CheckStateCritical

C1_Witness ==
    \E k \in Evaluated :
        /\ DescriptorOk(k) /\ LatestRunFailed(k)
        /\ Paused(k) /\ ~explicit
        /\ health[k].Status = CheckStateCritical

\* C2: in discovery mode with a listing that decodes, resolution completes
\* and the working set is exactly the dag_id values of the listing, in
\* order, with explicit = false, whatever total_entries says.
C2_DiscoveryWorkingSetIsListing ==
    (pc # "executeCheck" /\ Len(pluginDags) = 0 /\ getAllDags(dagList).err = Nil)
        => /\ pc # "panic"
           /\ explicit = FALSE
           /\ dags = [k \in 1..Len(dagList.body.Dags) |-> dagList.body.Dags[k].DagId]

\* C3 as stated: a paused DAG is WARNING when explicit and OK when discovered.
C3_PausedWarningOrOk ==
    \A k \in Evaluated :
        DescriptorOk(k) /\ Paused(k)
            => health[k].Status = IF explicit THEN CheckStateWarning
                                  ELSE CheckStateOK

\* C3 amended: a paused DAG is WARNING when explicit; when discovered it is
\* OK unless its latest run has state "failed", which makes it CRITICAL.
C3_PausedWarningOrRunState ==
    \A k \in Evaluated :
        DescriptorOk(k) /\ Paused(k)
            => health[k].Status =
                  IF explicit THEN CheckStateWarning
                  ELSE IF LatestRunFailed(k) THEN CheckStateCritical
                  ELSE CheckStateOK

C3_Witness ==
    \E k \in Evaluated :
        /\ DescriptorOk(k) /\ Paused(k) /\ ~explicit
        /\ ~LatestRunFailed(k)
        /\ health[k].Status = CheckStateOK

\* C4: checkDags yields one Health per identifier, in working-set order and
\* carrying that identifier, whatever fails on the way.
C4_OneHealthPerIdentifier ==
    /\ Len(health) = i - 1
    /\ Len(health) <= Len(dags)
    /\ \A k \in Evaluated : health[k].DagId = dags[k]
    /\ Classified => Len(health) = Len(dags)

C4_Witness ==
    /\ Classified
    /\ Len(dags) = 2 /\ Len(health) = 2
    /\ ~DescriptorOk(1) /\ health[1].Status = CheckStateCritical
    /\ DescriptorOk(2) /\ health[2].DagId = dags[2]

SeverityRank(status) ==
    CASE status = CheckStateOK -> 0
      [] status = CheckStateWarning -> 1
      [] status = CheckStateCritical -> 2
      [] status = CheckStateUnknown -> 2

MaxRank(h) ==
    IF \E k \in 1..Len(h) : SeverityRank(h[k].Status) = 2 THEN 2
    ELSE IF \E k \in 1..Len(h) : SeverityRank(h[k].Status) = 1 THEN 1
    ELSE 0

\* C5: the overall state is the worst severity over the Health results,
\* OK < WARNING < CRITICAL, UNKNOWN counting as CRITICAL.
C5_OverallIsMaximum ==
    Classified
        => /\ ret.status \in {CheckStateOK, CheckStateWarning, CheckStateCritical}
           /\ SeverityRank(ret.status) = MaxRank(health)

C5_Witness ==
    /\ Classified
    /\ \E k \in Evaluated : health[k].Status = CheckStateWarning
    /\ \E k \in Evaluated : health[k].Status = CheckStateOK
    /\ ret.status = CheckStateWarning

\* C6: when the listing fails in discovery mode the check aborts CRITICAL
\* with a fatal error: no per-DAG read, no Health result, nothing printed.
C6_ListingFailureAborts ==
    (pc # "executeCheck" /\ Len(pluginDags) = 0 /\ getAllDags(dagList).err # Nil)
        => /\ pc = "done"
           /\ ret = Return(CheckStateCritical,
                           [kind |-> "could not retrieve DAGs",
                            cause |-> getAllDags(dagList).err])
           /\ calls = <<[op |-> "getAllDags", pos |-> 0]>>
           /\ health = <<>>
           /\ out = <<>>

C6_Witness ==
    /\ pc = "done"
    /\ Len(pluginDags) = 0
    /\ dagList = TransportFailure
    /\ ret.status = CheckStateCritical /\ ret.err # Nil

\* C7: an empty working set gives OK and the "No DAGS loaded" line and no
\* success line; the success line is printed once, exactly when the working
\* set is non-empty and every result is OK; neither line is printed when
\* the overall state is WARNING or CRITICAL.
C7_ClosingLine ==
    Classified
        => /\ dags = <<>> => /\ ret.status = CheckStateOK
                             /\ Count(out, NoDagsLine) = 1
                             /\ Count(out, SuccessLine) = 0
           /\ Count(out, SuccessLine) <= 1
           /\ Count(out, SuccessLine) = 1
                <=> /\ dags # <<>>
                    /\ \A k \in Evaluated : health[k].Status = CheckStateOK
           /\ ret.status \in {CheckStateWarning, CheckStateCritical}
                => Count(out, SuccessLine) = 0 /\ Count(out, NoDagsLine) = 0

C7_Witness ==
    /\ Classified
    /\ dags = <<>>
    /\ out = <<NoDagsLine>>
    /\ ret.status = CheckStateOK

\* C8: a DAG whose descriptor cannot be retrieved is CRITICAL with the
\* diagnostic "could not retrieve dag: <id>" carrying the underlying error,
\* for either explicit flag, and the overall state is then CRITICAL.
C8_UnretrievableIsCritical ==
    /\ \A k \in Evaluated :
          ~DescriptorOk(k)
              => /\ getDag(server[k].dag).err # Nil
                 /\ health[k] = Health(dags[k], CheckStateCritical,
                                       ErrorfCause("could not retrieve dag", dags[k],
                                                   getDag(server[k].dag).err))
    /\ (Classified /\ \E k \in Evaluated : ~DescriptorOk(k))
          => ret.status = CheckStateCritical

C8_Witness ==
    /\ Classified
    /\ ~explicit
    /\ \E k \in Evaluated : server[k].dag = Undecodable
    /\ ret.status = CheckStateCritical

RunFetched(k) == DescriptorOk(k) /\ ~(explicit /\ Paused(k))

RunFetchFailed(k) == RunFetched(k) /\ LatestRun(k).err # Nil

NeverRun(k) == RunFetched(k) /\ LatestRun(k).err = Nil /\ LatestRun(k).dagRun = Nil

\* C9: when the run fetch itself fails the DAG stays OK with that error as
\* its diagnostic, and such DAGs alone leave the overall state OK; a DAG
\* that never ran stays OK with no diagnostic.
C9_RunFetchErrorStaysOk ==
    /\ \A k \in Evaluated :
          /\ RunFetchFailed(k) => health[k] = Health(dags[k], CheckStateOK, LatestRun(k).err)
          /\ NeverRun(k) => health[k] = Health(dags[k], CheckStateOK, Nil)
    /\ (Classified /\ \A k \in Evaluated : RunFetchFailed(k) \/ NeverRun(k))
          => ret.status = CheckStateOK

C9_Witness ==
    /\ Classified
    /\ Len(health) = 2
    /\ RunFetchFailed(1) /\ health[1].Error = ClientError
    /\ NeverRun(2) /\ health[2].Error = Nil
    /\ ret.status = CheckStateOK

\* C10: every evaluated position gets exactly one descriptor fetch and at
\* most one run fetch, the run fetch after a successful descriptor fetch and
\* only when not (explicit and paused); the calls of position k all come
\* before those of position k+1; the listing is read at most once, only in
\* discovery mode and first of all; no call is ever issued twice.
C10_CallOrder ==
    /\ \A k \in Evaluated :
          /\ Cardinality(CallsAt("getDag", k)) = 1
          /\ Cardinality(CallsAt("getLatestDagRun", k)) <= 1
          /\ CallsAt("getLatestDagRun", k) # {} => RunFetched(k)
          /\ \A a \in CallsAt("getDag", k), b \in CallsAt("getLatestDagRun", k) : a < b
    /\ \A n \in 1..Len(calls) :
          /\ calls[n].pos \in 0..Len(health)
          /\ calls[n].pos = 0 <=> calls[n].op = "getAllDags"
    /\ \A a, b \in 1..Len(calls) :
          /\ a < b => calls[a].pos <= calls[b].pos
          /\ a # b => calls[a] # calls[b]
    /\ Cardinality(CallsAt("getAllDags", 0)) <= 1
    /\ CallsAt("getAllDags", 0) # {} => Len(pluginDags) = 0 /\ calls[1].op = "getAllDags"

C10_Witness ==
    /\ Classified
    /\ calls = << [op |-> "getAllDags", pos |-> 0],
                  [op |-> "getDag", pos |-> 1],
                  [op |-> "getLatestDagRun", pos |-> 1],
                  [op |-> "getDag", pos |-> 2] >>
    /\ server[2].dag = TransportFailure

====
